---- MODULE Spec2Model ----
(***************************************************************************)
(* Model of src/pages/index.vue (random restaurant finder): the geolocation *)
(* resolver, the selection pipeline of getRandomRestaurants and the map     *)
(* marker synchronisation, as a state machine of event-loop handlers.       *)
(* Each action is one macrotask (a user event, a timer, a provider          *)
(* callback) together with the promise continuations it triggers.           *)
(*                                                                          *)
(* Conventions: an optional property (name?, types?, vicinity?, rating) is  *)
(* a set with at most one element, {} standing for undefined. Ratings are   *)
(* tenths (3.5 is 35). Strings are sequences of characters.                 *)
(***************************************************************************)
EXTENDS Integers, Sequences, FiniteSets, TLC

-----------------------------------------------------------------------------
(* Bounds of the model *)

\* number of getRandomRestaurants invocations in a run
MaxSearches == 2
\* length of the concatenated result list handed to the pipeline
MaxResults == 3
\* length of a keyword, a name, a category tag, an address
MaxStrLen == 2

-----------------------------------------------------------------------------
(* Program constants *)

\* place.rating >= 3.5, in tenths
RatingFloor == 35
\* numberOfRestaurants = ref(3)
DefaultCount == 3
\* checkNumberOfRestaurants clamps to [1, 10]
MinCount == 1
MaxCount == 10

Null == "null"
defaultPosition == "default"
\* coordinates the device geolocation API can report
DevicePositions == {"device"}

-----------------------------------------------------------------------------
(* Strings *)

\* the characters of keywords, and those of the provider's display fields
KeyChars == {"a", "A", "b"}
FieldChars == {"A", "b"}

RECURSIVE StringsOver(_, _)
StringsOver(chars, n) ==
    IF n = 0 THEN {<<>>}
    ELSE LET shorter == StringsOver(chars, n - 1)
         IN shorter \cup {Append(s, c) : s \in shorter, c \in chars}

toLowerCase(s) == [i \in 1..Len(s) |-> IF s[i] = "A" THEN "a" ELSE s[i]]

includes(s, sub) ==
    \E i \in 0..(Len(s) - Len(sub)) : SubSeq(s, i + 1, i + Len(sub)) = sub

-----------------------------------------------------------------------------
(* PlaceFilter *)

\* mutation of isRelevantRestaurant: the fields are compared as they are,
\* only the keyword is lower-cased
isRelevantRestaurantCaseSensitive(place, keyword) ==
    IF place.business_status # "OPERATIONAL" THEN FALSE
    ELSE IF keyword = <<>> THEN TRUE
    ELSE LET lowerKeyword == toLowerCase(keyword) IN
         \/ \E n \in place.name : includes(n, lowerKeyword)
         \/ \E ts \in place.types :
                \E i \in 1..Len(ts) : includes(ts[i], lowerKeyword)
         \/ \E v \in place.vicinity : includes(v, lowerKeyword)

isRelevantRestaurant(place, keyword) ==
    IF place.business_status # "OPERATIONAL" THEN FALSE
    ELSE IF keyword = <<>> THEN TRUE
    ELSE LET lowerKeyword == toLowerCase(keyword) IN
         \/ \E n \in place.name : includes(toLowerCase(n), lowerKeyword)
         \/ \E ts \in place.types :
                \E i \in 1..Len(ts) : includes(toLowerCase(ts[i]), lowerKeyword)
         \/ \E v \in place.vicinity : includes(toLowerCase(v), lowerKeyword)

-----------------------------------------------------------------------------
(* Selection pipeline: the pure steps of getRandomRestaurants *)

\* mutation of MapSet: the first record of a place_id is kept
MapSetKeepFirst(m, item) ==
    IF \E i \in 1..Len(m) : m[i].place_id = item.place_id THEN m ELSE Append(m, item)

\* Map.prototype.set on the entries seen so far: an existing key keeps its
\* position and takes the new value, a new key is appended
MapSet(m, item) ==
    IF \E i \in 1..Len(m) : m[i].place_id = item.place_id
    THEN [i \in 1..Len(m) |-> IF m[i].place_id = item.place_id THEN item ELSE m[i]]
    ELSE Append(m, item)

\* Array.from(new Map(allResults.map(item => [item.place_id, item])).values())
RECURSIVE MapValues(_)
MapValues(items) ==
    IF items = <<>> THEN <<>>
    ELSE MapSet(MapValues(SubSeq(items, 1, Len(items) - 1)), items[Len(items)])

uniqueResults(allResults, keyword) ==
    SelectSeq(MapValues(allResults), LAMBDA p : isRelevantRestaurant(p, keyword))

\* place.rating >= 3.5 is false for an undefined rating
PassesFloor(p) == \E r \in p.rating : r >= RatingFloor

RatingOf(p) == CHOOSE r \in p.rating : TRUE

\* one step of the stable sort by (a, b) => b.rating - a.rating
InsertByRating(s, p) ==
    LET k == Cardinality({i \in 1..Len(s) : RatingOf(s[i]) >= RatingOf(p)})
    IN SubSeq(s, 1, k) \o <<p>> \o SubSeq(s, k + 1, Len(s))

RECURSIVE SortByRating(_)
SortByRating(s) ==
    IF s = <<>> THEN <<>>
    ELSE InsertByRating(SortByRating(SubSeq(s, 1, Len(s) - 1)), s[Len(s)])

sortedResults(unique) == SortByRating(SelectSeq(unique, PassesFloor))

CeilHalf(n) == (n + 1) \div 2

\* mutation of topHalf: the half is rounded down
topHalfFloor(sorted) == SubSeq(sorted, 1, Len(sorted) \div 2)

topHalf(sorted) == SubSeq(sorted, 1, CeilHalf(Len(sorted)))

\* topHalf.sort(() => 0.5 - Math.random()): some permutation of topHalf
Shuffles(s) ==
    {[i \in 1..Len(s) |-> s[p[i]]] : p \in Permutations(1..Len(s))}

\* Array.prototype.slice(0, end), a negative end counting from the back
slice(s, end) ==
    LET e == IF end < 0
             THEN (IF Len(s) + end < 0 THEN 0 ELSE Len(s) + end)
             ELSE (IF end > Len(s) THEN Len(s) ELSE end)
    IN SubSeq(s, 1, e)

\* mutation of Selections: the sample is drawn from the whole sorted list
SelectionsOfAll(unique, count) ==
    {slice(sh, count) : sh \in Shuffles(sortedResults(unique))}

\* the lists `selected` can be, for a filtered result list and a count
Selections(unique, count) ==
    {slice(sh, count) : sh \in Shuffles(topHalf(sortedResults(unique)))}

-----------------------------------------------------------------------------
(* Detail and distance enrichment *)

\* getPlaceDetails resolves to the provider's record (status OK) or to null
getPlaceDetails(reply) == IF reply.status = "OK" THEN reply.place ELSE Null

\* computeDistanceBetween is the provider's; its value is kept as the pair of
\* points it was computed from
calculateDistance(p1, p2) == [from |-> p1, to |-> p2]

NoDistance == [from |-> Null, to |-> 0]

\* { ...place, details, distance }
Enrich(place, details, distance) ==
    [place_id |-> place.place_id, business_status |-> place.business_status,
     rating |-> place.rating, name |-> place.name, types |-> place.types,
     vicinity |-> place.vicinity, details |-> details, distance |-> distance]

-----------------------------------------------------------------------------
(* The places provider of the state machine: a fixed catalogue, any subset   *)
(* of which a nearbySearch may return                                        *)

Place(id, status, rating, name) ==
    [place_id |-> id, business_status |-> status, rating |-> rating,
     name |-> {name}, types |-> {<<>>}, vicinity |-> {<<>>}]

Catalogue ==
    << Place(1, "OPERATIONAL", {45}, <<"A">>),
       Place(2, "OPERATIONAL", {40}, <<"b">>),
       Place(3, "OPERATIONAL", {40}, <<"A", "b">>),
       Place(4, "OPERATIONAL", {}, <<"A">>),
       Place(5, "CLOSED_TEMPORARILY", {50}, <<"b">>) >>

RECURSIVE Restrict(_, _)
Restrict(s, S) ==
    IF s = <<>> THEN <<>>
    ELSE LET front == Restrict(SubSeq(s, 1, Len(s) - 1), S)
         IN IF Len(s) \in S THEN Append(front, s[Len(s)]) ELSE front

\* (results, status) of a nearbySearch callback
ProviderReplies ==
    {[status |-> "OK", results |-> Restrict(Catalogue, S)] :
        S \in SUBSET (1..Len(Catalogue))}
    \cup {[status |-> "ERROR", results |-> <<>>]}

\* (place, status) of a getDetails callback: the provider holds details for
\* every place of the catalogue but the third
DetailsReplies(placeId) ==
    IF placeId = 3
    THEN {[status |-> "NOT_FOUND", place |-> Null]}
    ELSE {[status |-> "OK", place |-> "details"]}

\* values typed into the inputs bound to numberOfRestaurants and searchKeyword
TypedCounts == {-1, 11}
TypedKeywords == {<<>>, <<"a">>}

-----------------------------------------------------------------------------
(* State *)

VARIABLES
    mapState,               \* "loading", "ready" (map and service set), "failed"
    geo,                    \* the timer and the platform call of getUserLocation
    currentPosition,        \* currentPosition.value
    isLocationReady,        \* isLocationReady.value
    settled,                \* the paths of getUserLocation that wrote the position
    currentLocationMarker,  \* position of the current-location marker, or Null
    viewport,               \* what the map shows
    numberOfRestaurants,    \* numberOfRestaurants.value
    searchKeyword,          \* searchKeyword.value
    selectedRestaurants,    \* selectedRestaurants.value
    markers,                \* markers.value
    onMap,                  \* the restaurant markers attached to the map (the
                            \* place each stands for, in order of creation)
    started,                \* how many times getRandomRestaurants was invoked
    searches,               \* the invocations of getRandomRestaurants in flight: the
                            \* locals of each (n: its number, overlapped: whether
                            \* another was in flight with it, operational:
                            \* whether its reply held an operational place)
    lastDone,               \* the invocation that returned last: its number, whether
                            \* it got past "No restaurants found", whether its reply
                            \* held an operational place, how many markers its
                            \* updateMapMarkers cleared, and the list it produced
    callPc,                 \* a call of a pure function: "none", "ready", "returned"
    argPlace, argKeyword,   \* isRelevantRestaurant(place, keyword)
    argResults, argCount,   \* allResults and numberOfRestaurants.value of the pipeline
    retRelevant,            \* what isRelevantRestaurant returned
    retPipeline             \* the lists the pipeline computed

callVars == <<callPc, argPlace, argKeyword, argResults, argCount, retRelevant,
              retPipeline>>

appVars == <<mapState, geo, currentPosition, isLocationReady, settled,
             currentLocationMarker, viewport, numberOfRestaurants, searchKeyword,
             selectedRestaurants, markers, onMap, started, searches, lastDone>>

vars == <<appVars, callVars>>

\* an invocation in flight occupies a slot until it returns; two can overlap
Slots == {1, 2}

IdleSearch ==
    [pc |-> "idle", n |-> 0, overlapped |-> FALSE, location |-> Null,
     operational |-> FALSE, selected |-> <<>>, enriched |-> <<>>]

PendingEntry == [done |-> FALSE, details |-> Null, distance |-> NoDistance]

NoViewport == [mode |-> "none", center |-> Null, places |-> {}]

NoPipeline ==
    [found |-> FALSE, deduped |-> <<>>, sorted |-> <<>>, top |-> <<>>,
     selected |-> <<>>]

\* no pure function is being called
NoCall ==
    /\ callPc = "none"
    /\ argPlace = Place(1, "OPERATIONAL", {}, <<>>)
    /\ argKeyword = <<>>
    /\ argResults = <<>>
    /\ argCount = 0
    /\ retRelevant = FALSE
    /\ retPipeline = NoPipeline

\* the refs of the component after <script setup>
AppInit ==
    /\ mapState = "loading"
    /\ geo = [locationTimeout |-> "none", platform |-> "none"]
    /\ currentPosition = Null
    /\ isLocationReady = FALSE
    /\ settled = <<>>
    /\ currentLocationMarker = Null
    /\ viewport = NoViewport
    /\ numberOfRestaurants = DefaultCount
    /\ searchKeyword = <<>>
    /\ selectedRestaurants = <<>>
    /\ markers = <<>>
    /\ onMap = <<>>
    /\ started = 0
    /\ searches = [s \in Slots |-> IdleSearch]
    /\ lastDone = [n |-> 0, overlapped |-> FALSE, found |-> FALSE, cleared |-> 0,
                   operational |-> FALSE, result |-> <<>>]

Init == AppInit /\ NoCall

-----------------------------------------------------------------------------
(* MapSync *)

Centered(pos) == [mode |-> "center", center |-> pos, places |-> {}]

\* updateCurrentLocationMarker: the marker and the viewport it leaves
updateCurrentLocationMarker(pos, marker, view) ==
    IF pos # Null
    THEN [marker |-> pos, viewport |-> Centered(pos)]
    ELSE [marker |-> marker, viewport |-> view]

\* the restaurant markers updateMapMarkers creates, each with its popover open
NewMarkers(selection) ==
    LET shown == SelectSeq(selection, LAMBDA r : r.business_status = "OPERATIONAL")
    IN [i \in 1..Len(shown) |-> [place_id |-> shown[i].place_id, infoWindow |-> "open"]]

\* the places a list of markers stands for, in order
MarkerIds(list) == [i \in 1..Len(list) |-> list[i].place_id]

\* marker.setMap(null): the map without one marker of the place
RemoveOne(attached, id) ==
    IF \E i \in 1..Len(attached) : attached[i] = id
    THEN LET k == CHOOSE i \in 1..Len(attached) :
                     /\ attached[i] = id
                     /\ \A j \in 1..(i - 1) : attached[j] # id
         IN [i \in 1..(Len(attached) - 1) |->
                IF i < k THEN attached[i] ELSE attached[i + 1]]
    ELSE attached

\* mutation of clearMarkers: the old markers stay on the map
clearMarkersSkipped(attached, old) == attached

\* markers.value.forEach((marker) => marker.setMap(null)): the map without
\* the markers of markers.value
RECURSIVE clearMarkers(_, _)
clearMarkers(attached, old) ==
    IF old = <<>> THEN attached
    ELSE clearMarkers(RemoveOne(attached, Head(old).place_id), Tail(old))

\* updateMapMarkers on a selection: markers, the markers on the map,
\* current-location marker, viewport
updateMapMarkers(selection, pos, marker, view, old, attached) ==
    LET loc == updateCurrentLocationMarker(pos, marker, view)
    IN [markers |-> NewMarkers(selection),
        onMap |-> clearMarkers(attached, old) \o MarkerIds(NewMarkers(selection)),
        marker |-> loc.marker,
        viewport |-> IF Len(selection) > 0
                     THEN [mode |-> "fit", center |-> pos,
                           places |-> {selection[i].place_id : i \in 1..Len(selection)}]
                     ELSE loc.viewport]

\* the click listener of restaurant marker i: closes the popover of every
\* marker in markers, then opens its own
markerClick(i) ==
    /\ i \in 1..Len(markers)
    /\ markers' = [j \in 1..Len(markers) |->
                     [markers[j] EXCEPT
                         !.infoWindow = IF j = i THEN "open" ELSE "closed"]]
    /\ UNCHANGED <<mapState, geo, currentPosition, isLocationReady, settled,
                   currentLocationMarker, viewport, numberOfRestaurants,
                   searchKeyword, selectedRestaurants, onMap, started,
                   searches, lastDone>>
    /\ UNCHANGED callVars

-----------------------------------------------------------------------------
(* GeolocationResolver *)

\* currentPosition.value = pos; isLocationReady.value = true;
\* updateCurrentLocationMarker(); resolve()
Settle(path, pos) ==
    LET loc == updateCurrentLocationMarker(pos, currentLocationMarker, viewport)
    IN /\ currentPosition' = pos
       /\ isLocationReady' = TRUE
       /\ settled' = Append(settled, path)
       /\ currentLocationMarker' = loc.marker
       /\ viewport' = loc.viewport

\* initMap up to its await of getUserLocation, getUserLocation's synchronous
\* part included
initMap ==
    /\ mapState = "loading"
    /\ mapState' = "ready"
    /\ \E supported \in BOOLEAN :
          IF supported
          THEN /\ geo' = [locationTimeout |-> "armed", platform |-> "pending"]
               /\ viewport' = Centered(defaultPosition)
               /\ UNCHANGED <<currentPosition, isLocationReady, settled,
                              currentLocationMarker>>
          ELSE /\ Settle("unsupported", defaultPosition)
               /\ UNCHANGED geo
    /\ UNCHANGED <<numberOfRestaurants, searchKeyword, selectedRestaurants,
                   markers, onMap, started, searches, lastDone>>
    /\ UNCHANGED callVars

\* waitForGoogleMaps rejects or the map container is missing
initMapFails ==
    /\ mapState = "loading"
    /\ mapState' = "failed"
    /\ UNCHANGED <<geo, currentPosition, isLocationReady, settled,
                   currentLocationMarker, viewport, numberOfRestaurants,
                   searchKeyword, selectedRestaurants, markers, onMap, started,
                   searches, lastDone>>
    /\ UNCHANGED callVars

\* mutation of locationTimeout: the timer only logs
locationTimeoutLogsOnly ==
    /\ geo.locationTimeout = "armed"
    /\ geo' = [geo EXCEPT !.locationTimeout = "fired"]
    /\ UNCHANGED <<mapState, currentPosition, isLocationReady, settled,
                   currentLocationMarker, viewport, numberOfRestaurants,
                   searchKeyword, selectedRestaurants, markers, onMap, started, searches,
                   lastDone>>
    /\ UNCHANGED callVars

\* the setTimeout(..., 10000) callback
locationTimeout ==
    /\ geo.locationTimeout = "armed"
    /\ geo' = [geo EXCEPT !.locationTimeout = "fired"]
    /\ Settle("timeout", defaultPosition)
    /\ UNCHANGED <<mapState, numberOfRestaurants, searchKeyword,
                   selectedRestaurants, markers, onMap, started, searches, lastDone>>
    /\ UNCHANGED callVars

ClearTimeout(g) ==
    IF g.locationTimeout = "armed" THEN [g EXCEPT !.locationTimeout = "cleared"] ELSE g

\* the success callback of getCurrentPosition
positionSuccess ==
    /\ geo.platform = "pending"
    /\ geo' = [ClearTimeout(geo) EXCEPT !.platform = "called"]
    /\ \E p \in DevicePositions : Settle("success", p)
    /\ UNCHANGED <<mapState, numberOfRestaurants, searchKeyword,
                   selectedRestaurants, markers, onMap, started, searches, lastDone>>
    /\ UNCHANGED callVars

\* the error callback of getCurrentPosition
positionError ==
    /\ geo.platform = "pending"
    /\ geo' = [ClearTimeout(geo) EXCEPT !.platform = "called"]
    /\ Settle("error", defaultPosition)
    /\ UNCHANGED <<mapState, numberOfRestaurants, searchKeyword,
                   selectedRestaurants, markers, onMap, started, searches, lastDone>>
    /\ UNCHANGED callVars

-----------------------------------------------------------------------------
(* ViewState inputs *)

\* v-model on the count input: a keystroke
typeNumberOfRestaurants ==
    /\ \E v \in TypedCounts : numberOfRestaurants' = v
    /\ numberOfRestaurants' # numberOfRestaurants
    /\ UNCHANGED <<mapState, geo, currentPosition, isLocationReady, settled,
                   currentLocationMarker, viewport, searchKeyword,
                   selectedRestaurants, markers, onMap, started, searches, lastDone>>
    /\ UNCHANGED callVars

\* @blur of the count input
checkNumberOfRestaurants ==
    /\ \/ numberOfRestaurants < MinCount /\ numberOfRestaurants' = MinCount
       \/ numberOfRestaurants > MaxCount /\ numberOfRestaurants' = MaxCount
    /\ UNCHANGED <<mapState, geo, currentPosition, isLocationReady, settled,
                   currentLocationMarker, viewport, searchKeyword,
                   selectedRestaurants, markers, onMap, started, searches, lastDone>>
    /\ UNCHANGED callVars

\* v-model on the keyword input
typeSearchKeyword ==
    /\ \E k \in TypedKeywords : searchKeyword' = k
    /\ searchKeyword' # searchKeyword
    /\ UNCHANGED <<mapState, geo, currentPosition, isLocationReady, settled,
                   currentLocationMarker, viewport, numberOfRestaurants,
                   selectedRestaurants, markers, onMap, started, searches, lastDone>>
    /\ UNCHANGED callVars

-----------------------------------------------------------------------------
(* SelectionPipeline: getRandomRestaurants *)

\* the click handler up to `await Promise.all(searchPromises)`: the guards,
\* and the one request of getSearchRequests sent with location: currentPosition
getRandomRestaurants(s) ==
    /\ mapState = "ready"
    /\ isLocationReady
    /\ started < MaxSearches
    /\ searches[s].pc = "idle"
    /\ \A r \in Slots : r < s => searches[r].pc # "idle"
    /\ started' = started + 1
    /\ LET alone == \A r \in Slots : searches[r].pc = "idle"
       IN searches' = [r \in Slots |->
                         IF r = s
                         THEN [pc |-> "searching", n |-> started + 1,
                               overlapped |-> ~alone,
                               location |-> currentPosition, operational |-> FALSE,
                               selected |-> <<>>, enriched |-> <<>>]
                         ELSE IF searches[r].pc = "idle" THEN searches[r]
                         ELSE [searches[r] EXCEPT !.overlapped = TRUE]]
    /\ UNCHANGED <<mapState, geo, currentPosition, isLocationReady, settled,
                   currentLocationMarker, viewport, numberOfRestaurants,
                   searchKeyword, selectedRestaurants, markers, onMap, lastDone>>
    /\ UNCHANGED callVars

\* `return` at "No restaurants found": nothing is written
ReturnEmpty(s, any) ==
    /\ searches' = [searches EXCEPT ![s] = IdleSearch]
    /\ lastDone' = [n |-> searches[s].n, overlapped |-> searches[s].overlapped,
                  found |-> FALSE, operational |-> any, cleared |-> 0,
                  result |-> <<>>]
    /\ UNCHANGED <<selectedRestaurants, markers, onMap, currentLocationMarker, viewport>>

\* mutation of CompleteSearch: an invocation that is not the latest one
\* started drops its list
CompleteSearchUnlessStale(s, list, any) ==
    LET m == updateMapMarkers(list, currentPosition, currentLocationMarker, viewport,
                              markers, onMap)
        latest == searches[s].n = started
    IN /\ selectedRestaurants' = IF latest THEN list ELSE selectedRestaurants
       /\ markers' = IF latest THEN m.markers ELSE markers
       /\ onMap' = IF latest THEN m.onMap ELSE onMap
       /\ currentLocationMarker' = IF latest THEN m.marker ELSE currentLocationMarker
       /\ viewport' = IF latest THEN m.viewport ELSE viewport
       /\ searches' = [searches EXCEPT ![s] = IdleSearch]
       /\ lastDone' = [n |-> searches[s].n, overlapped |-> searches[s].overlapped,
                        found |-> TRUE, operational |-> any,
                        cleared |-> Len(markers),
                        result |-> list]

\* selectedRestaurants.value = await Promise.all(detailsPromises);
\* updateMapMarkers()
CompleteSearch(s, list, any) ==
    /\ selectedRestaurants' = list
    /\ LET m == updateMapMarkers(selectedRestaurants', currentPosition,
                                 currentLocationMarker, viewport, markers, onMap)
       IN /\ markers' = m.markers
          /\ onMap' = m.onMap
          /\ currentLocationMarker' = m.marker
          /\ viewport' = m.viewport
    /\ searches' = [searches EXCEPT ![s] = IdleSearch]
    /\ lastDone' = [n |-> searches[s].n, overlapped |-> searches[s].overlapped,
                     found |-> TRUE, operational |-> any,
                     cleared |-> Len(markers),
                     result |-> selectedRestaurants']

\* how many places of a result list the provider reports as operational
Operational(results) ==
    Cardinality({i \in 1..Len(results) : results[i].business_status = "OPERATIONAL"})

\* mutation of NoneFound: the empty check is missing
NoneFoundIgnored(unique) == FALSE

\* uniqueResults.length === 0
NoneFound(unique) == Len(unique) = 0

\* the nearbySearch callback and the continuation of getRandomRestaurants it
\* resumes, up to the getDetails requests
nearbySearchCallback(s) ==
    /\ searches[s].pc = "searching"
    /\ UNCHANGED <<mapState, geo, currentPosition, isLocationReady, settled,
                   numberOfRestaurants, searchKeyword, started>>
    /\ UNCHANGED callVars
    /\ \E reply \in ProviderReplies :
          LET allResults == IF reply.status = "OK" THEN reply.results ELSE <<>>
              unique == uniqueResults(allResults, searchKeyword)
              any == Operational(reply.results) > 0
          IN IF NoneFound(unique)
             THEN ReturnEmpty(s, any)
             ELSE \E selected \in Selections(unique, numberOfRestaurants) :
                    IF selected = <<>>
                    THEN CompleteSearch(s, <<>>, any)
                    ELSE /\ searches' = [searches EXCEPT ![s] =
                                [pc |-> "details", n |-> @.n,
                                 overlapped |-> @.overlapped, location |-> @.location,
                                 operational |-> any, selected |-> selected,
                                 enriched |-> [i \in 1..Len(selected) |-> PendingEntry]]]
                         /\ UNCHANGED <<selectedRestaurants, markers, onMap,
                                        currentLocationMarker, viewport, lastDone>>

\* the resolved values of detailsPromises
Results(search) ==
    [i \in 1..Len(search.selected) |->
        Enrich(search.selected[i], search.enriched[i].details,
               search.enriched[i].distance)]

\* mutation of AllResolved: the first details promise to resolve ends the wait
AnyResolved(search) == \E j \in 1..Len(search.enriched) : search.enriched[j].done

\* await Promise.all(detailsPromises): every details promise has resolved
AllResolved(search) == \A j \in 1..Len(search.enriched) : search.enriched[j].done

\* a getDetails callback: the place's async function computes its distance
\* and resolves; when it is the last one, Promise.all resolves and the list
\* is written
getDetailsCallback(s, i) ==
    /\ searches[s].pc = "details"
    /\ i \in 1..Len(searches[s].selected)
    /\ ~searches[s].enriched[i].done
    /\ UNCHANGED <<mapState, geo, currentPosition, isLocationReady, settled,
                   numberOfRestaurants, searchKeyword, started>>
    /\ UNCHANGED callVars
    /\ \E reply \in DetailsReplies(searches[s].selected[i].place_id) :
          LET entry == [done |-> TRUE, details |-> getPlaceDetails(reply),
                        distance |-> calculateDistance(currentPosition,
                                        searches[s].selected[i].place_id)]
              after == [searches[s] EXCEPT !.enriched[i] = entry]
          IN IF AllResolved(after)
             THEN CompleteSearch(s, Results(after), after.operational)
             ELSE /\ searches' = [searches EXCEPT ![s] = after]
                  /\ UNCHANGED <<selectedRestaurants, markers, onMap,
                                 currentLocationMarker, viewport, lastDone>>

-----------------------------------------------------------------------------

MaxSelected == Len(Catalogue)

Next ==
    \/ initMap
    \/ initMapFails
    \/ locationTimeout
    \/ positionSuccess
    \/ positionError
    \/ typeNumberOfRestaurants
    \/ checkNumberOfRestaurants
    \/ typeSearchKeyword
    \/ \E s \in Slots : getRandomRestaurants(s)
    \/ \E s \in Slots : nearbySearchCallback(s)
    \/ \E s \in Slots : \E i \in 1..MaxSelected : getDetailsCallback(s, i)
    \/ \E i \in 1..MaxSelected : markerClick(i)

Spec == Init /\ [][Next]_vars

\* setTimeout fires its callback unless clearTimeout ran first
LiveSpec == Spec /\ WF_vars(locationTimeout)

\* a callback of the places provider
ProviderCallback ==
    \E s \in Slots :
        nearbySearchCallback(s) \/ \E i \in 1..MaxSelected : getDetailsCallback(s, i)

\* the places provider answers the requests it was sent
FairSpec == Spec /\ WF_vars(ProviderCallback)

-----------------------------------------------------------------------------
(* isRelevantRestaurant called on every place and keyword within the bounds *)

Statuses == {"OPERATIONAL", "CLOSED_TEMPORARILY", "CLOSED_PERMANENTLY"}

\* a property that may be undefined
Optional(S) == {{}} \cup {{x} : x \in S}

FieldStrings == StringsOver(FieldChars, MaxStrLen)

\* the places handed to the filter: any status, any name, at most one
\* category tag, any address, each of the three possibly undefined
FilterPlaces ==
    [place_id : {1}, business_status : Statuses, rating : {{}},
     name : Optional(FieldStrings),
     types : Optional({<<>>} \cup {<<tag>> : tag \in FieldStrings}),
     vicinity : Optional(FieldStrings)]

FilterInit ==
    /\ AppInit
    /\ callPc = "ready"
    /\ argPlace \in FilterPlaces
    /\ argKeyword \in StringsOver(KeyChars, MaxStrLen)
    /\ argResults = <<>>
    /\ argCount = 0
    /\ retRelevant = FALSE
    /\ retPipeline = NoPipeline

callIsRelevantRestaurant ==
    /\ callPc = "ready"
    /\ callPc' = "returned"
    /\ retRelevant' = isRelevantRestaurant(argPlace, argKeyword)
    /\ UNCHANGED <<appVars, argPlace, argKeyword, argResults, argCount, retPipeline>>

FilterNext == callIsRelevantRestaurant

FilterSpec == FilterInit /\ [][FilterNext]_vars

-----------------------------------------------------------------------------
(* The pipeline of getRandomRestaurants from allResults to `selected`, run   *)
(* on every concatenated result list within the bounds                       *)

\* the records the provider may hold for one place_id: duplicates of an id
\* may differ in rating and in status
PipelinePlaces ==
    {Place(id, "OPERATIONAL", {r}, <<"A">>) : id \in 1..MaxResults, r \in {30, 40, 45}}
    \cup {Place(id, "CLOSED_PERMANENTLY", {45}, <<"A">>) : id \in 1..MaxResults}

RECURSIVE SeqsUpTo(_, _)
SeqsUpTo(S, n) ==
    IF n = 0 THEN {<<>>}
    ELSE LET shorter == SeqsUpTo(S, n - 1)
         IN shorter \cup {Append(s, x) : s \in shorter, x \in S}

PipelineInit ==
    /\ AppInit
    /\ callPc = "ready"
    /\ argPlace = Place(1, "OPERATIONAL", {}, <<>>)
    /\ argKeyword = <<>>
    /\ argResults \in SeqsUpTo(PipelinePlaces, MaxResults)
    /\ argCount \in -1..MaxResults
    /\ retRelevant = FALSE
    /\ retPipeline = NoPipeline

\* lines 378 to 398 of getRandomRestaurants on allResults = argResults
callPipeline ==
    /\ callPc = "ready"
    /\ callPc' = "returned"
    /\ LET deduped == MapValues(argResults)
           unique == uniqueResults(argResults, argKeyword)
       IN IF NoneFound(unique)
          THEN retPipeline' = [found |-> FALSE, deduped |-> deduped, sorted |-> <<>>,
                               top |-> <<>>, selected |-> <<>>]
          ELSE \E selected \in Selections(unique, argCount) :
                 retPipeline' = [found |-> TRUE, deduped |-> deduped,
                                 sorted |-> sortedResults(unique),
                                 top |-> topHalf(sortedResults(unique)),
                                 selected |-> selected]
    /\ UNCHANGED <<appVars, argPlace, argKeyword, argResults, argCount, retRelevant>>

PipelineNext == callPipeline

PipelineSpec == PipelineInit /\ [][PipelineNext]_vars

-----------------------------------------------------------------------------
(* Properties of the pure steps                                              *)

\* two characters that differ at most in case
EqualIgnoringCase(c, d) == c = d \/ {c, d} = {"a", "A"}

\* keyword occurs in s as a substring, case ignored
OccursIgnoringCase(keyword, s) ==
    \E off \in 0..(Len(s) - Len(keyword)) :
        \A j \in 1..Len(keyword) : EqualIgnoringCase(s[off + j], keyword[j])

KeywordMatches(place, keyword) ==
    \/ \E n \in place.name : OccursIgnoringCase(keyword, n)
    \/ \E ts \in place.types : \E i \in 1..Len(ts) : OccursIgnoringCase(keyword, ts[i])
    \/ \E v \in place.vicinity : OccursIgnoringCase(keyword, v)

\* C8: isRelevantRestaurant(place, keyword) is true exactly when the place is
\* OPERATIONAL and the keyword is empty or occurs, case ignored, in the name,
\* in a category tag or in the address; so a non-operational place is rejected
\* whatever the keyword, and an empty keyword accepts every operational place.
C8_FilterContract ==
    callPc = "returned" =>
        /\ retRelevant <=>
              /\ argPlace.business_status = "OPERATIONAL"
              /\ (argKeyword = <<>> \/ KeywordMatches(argPlace, argKeyword))
        /\ argPlace.business_status # "OPERATIONAL" => ~retRelevant
        /\ argPlace.business_status = "OPERATIONAL" /\ argKeyword = <<>> => retRelevant

\* an operational place accepted for a keyword that occurs, in another case
\* and not at the start, in its one category tag only
C8_Witness ==
    /\ callPc = "returned"
    /\ retRelevant
    /\ argKeyword = <<"a">>
    /\ argPlace.name = {<<"b">>}
    /\ argPlace.types = {<< <<"b", "A">> >>}
    /\ argPlace.vicinity = {}

\* the place_ids of a list
IdsOf(list) == {list[i].place_id : i \in 1..Len(list)}

\* the latest occurrence of a place_id in a list
LastIndexOf(list, id) ==
    CHOOSE i \in 1..Len(list) :
        /\ list[i].place_id = id
        /\ \A j \in (i + 1)..Len(list) : list[j].place_id # id

\* C7: the dedup step yields exactly one entry per distinct place_id of the
\* concatenated result list, and that entry is the record of the latest
\* occurrence of the id.
C7_DedupKeepsLast ==
    callPc = "returned" =>
        LET deduped == retPipeline.deduped IN
        /\ IdsOf(deduped) = IdsOf(argResults)
        /\ \A id \in IdsOf(argResults) :
              /\ Cardinality({j \in 1..Len(deduped) : deduped[j].place_id = id}) = 1
              /\ \A j \in 1..Len(deduped) :
                    deduped[j].place_id = id =>
                        deduped[j] = argResults[LastIndexOf(argResults, id)]

\* a result list that holds two different records of one place_id
C7_Witness ==
    /\ callPc = "returned"
    /\ Len(argResults) = 3
    /\ argResults[1].place_id = argResults[3].place_id
    /\ argResults[1] # argResults[3]
    /\ argResults[2].place_id # argResults[1].place_id
    /\ Len(retPipeline.deduped) = 2

\* the candidate pool: the deduplicated places that pass the filter and the
\* quality floor
Pool ==
    {p \in {retPipeline.deduped[i] : i \in 1..Len(retPipeline.deduped)} :
        /\ p.business_status = "OPERATIONAL"
        /\ \E r \in p.rating : r >= RatingFloor}

PoolSize == Cardinality(Pool)

\* among the ceil(N/2) best rated of the pool
InTopHalf(e) ==
    /\ e \in Pool
    /\ Cardinality({q \in Pool : RatingOf(q) > RatingOf(e)}) < CeilHalf(PoolSize)

Selected == retPipeline.selected

Distinct(list) == \A i, j \in 1..Len(list) : list[i] = list[j] => i = j

Smaller(a, b) == IF a < b THEN a ELSE b

\* C5 as stated: for a pool of size N and a count 1 <= K <= N the pipeline
\* selects exactly K entries, each from the top half by rating.
C5_ExactlyCount ==
    callPc = "returned" /\ argCount >= 1 /\ argCount <= PoolSize =>
        /\ Len(Selected) = argCount
        /\ \A i \in 1..Len(Selected) : InTopHalf(Selected[i])

\* C5 amended: for a pool of size N and a count 0 <= K <= N the pipeline
\* selects min(K, ceil(N/2)) distinct entries, each from the top half by
\* rating; it selects exactly K of them when K <= ceil(N/2).
C5_CountWithinTopHalf ==
    callPc = "returned" /\ argCount >= 0 /\ argCount <= PoolSize =>
        /\ Len(Selected) = Smaller(argCount, CeilHalf(PoolSize))
        /\ argCount <= CeilHalf(PoolSize) => Len(Selected) = argCount
        /\ Distinct(Selected)
        /\ \A i \in 1..Len(Selected) : InTopHalf(Selected[i])

\* a pool of three, two requested: both come from the top half of two
C5_Witness ==
    /\ callPc = "returned"
    /\ PoolSize = 3
    /\ argCount = 2
    /\ Len(Selected) = 2
    /\ \E p \in Pool : \A i \in 1..Len(Selected) : Selected[i] # p

\* C6 as stated: for a pool smaller than the count K the pipeline selects
\* every entry of the pool, and nothing else.
C6_WholePool ==
    callPc = "returned" /\ PoolSize < argCount =>
        /\ {Selected[i] : i \in 1..Len(Selected)} = Pool
        /\ Len(Selected) = PoolSize

\* C6 amended: when the top half of the pool (its ceil(N/2) best rated
\* entries, in the order of the stable sort) is smaller than the count K, the
\* pipeline selects every entry of the top half once and nothing else: a list
\* of ceil(N/2) < K entries of the pool.
C6_WholeTopHalf ==
    callPc = "returned" /\ CeilHalf(PoolSize) < argCount =>
        /\ {Selected[i] : i \in 1..Len(Selected)}
              = {retPipeline.top[i] : i \in 1..Len(retPipeline.top)}
        /\ Len(Selected) = CeilHalf(PoolSize)
        /\ Len(Selected) < argCount
        /\ Distinct(Selected)
        /\ \A i \in 1..Len(Selected) : InTopHalf(Selected[i])

\* a pool of three and a count of three: the two of the top half are selected
C6_Witness ==
    /\ callPc = "returned"
    /\ PoolSize = 3
    /\ argCount = 3
    /\ Len(Selected) = 2

-----------------------------------------------------------------------------
(* Properties of the application                                             *)

\* C1: no step replaces a non-empty selectedRestaurants with an empty list.
C1_NeverCleared ==
    [][selectedRestaurants # <<>> => selectedRestaurants' # <<>>]_vars

shownVars == <<selectedRestaurants, markers, currentLocationMarker, viewport>>

\* the step is the return of an invocation whose reply held no operational place
ReturnsOnNoOperational ==
    /\ lastDone'.n # lastDone.n
    /\ ~lastDone'.operational

\* C2: an invocation of getRandomRestaurants whose provider reply holds no
\* operational place changes neither selectedRestaurants, nor markers, nor the
\* current-location marker, nor the viewport: not when it starts, not when it
\* returns.
C2_NoResultsFrame ==
    [][(started' # started \/ ReturnsOnNoOperational) => UNCHANGED shownVars]_vars

\* a re-search has returned on a reply without operational places, and the
\* selection shown before is still there with its markers
C2_Witness ==
    /\ lastDone.n = 2
    /\ ~lastDone.operational
    /\ ~lastDone.found
    /\ Len(selectedRestaurants) = 2
    /\ Len(markers) = 2
    /\ viewport.mode = "fit"

\* C3: getUserLocation writes currentPosition and isLocationReady, and
\* calls updateCurrentLocationMarker, at most once.
C3_SettlesOnce == Len(settled) <= 1

\* the step is a write of the position by a path other than the success
\* callback
SettlesOnFallback ==
    /\ Len(settled') = Len(settled) + 1
    /\ settled'[Len(settled')] # "success"

\* C4: once getUserLocation was called, isLocationReady becomes true with
\* currentPosition set; a path other than the success callback sets
\* currentPosition to defaultPosition; isLocationReady never goes back to false.
C4_AlwaysSettles ==
    /\ (mapState = "ready") ~> (isLocationReady /\ currentPosition # Null)
    /\ [][SettlesOnFallback => currentPosition' = defaultPosition]_vars
    /\ [][isLocationReady => isLocationReady']_vars
    /\ [](isLocationReady <=> settled # <<>>)

\* the timer settled the location while the platform call is still pending
C4_Witness ==
    /\ settled = <<"timeout">>
    /\ geo.platform = "pending"
    /\ isLocationReady
    /\ currentPosition = defaultPosition

\* no invocation is in flight, and the one that returned last had been in
\* flight together with another
BothResolved ==
    /\ started >= 2
    /\ \A s \in Slots : searches[s].pc = "idle"
    /\ lastDone.overlapped

InFlight(s) == searches[s].pc # "idle"

Pending(search) == {i \in 1..Len(search.enriched) : ~search.enriched[i].done}

\* the step is the return of the invocation in slot s
Returns(s) == InFlight(s) /\ searches'[s].pc = "idle"

\* C10: selectedRestaurants changes only in the step in which an invocation
\* returns, after its nearbySearch reply and with the last of its details
\* fetches: the new list holds every selected place, in order, each with the
\* details and the distance its fetch resolved to.
C10_AtomicReplace ==
    [][selectedRestaurants' # selectedRestaurants =>
        \E s \in Slots :
            /\ Returns(s)
            /\ searches[s].pc = "details" =>
                  /\ Cardinality(Pending(searches[s])) = 1
                  /\ Len(selectedRestaurants') = Len(searches[s].selected)
                  /\ \A i \in 1..Len(searches[s].selected) :
                        /\ selectedRestaurants'[i].place_id
                              = searches[s].selected[i].place_id
                        /\ selectedRestaurants'[i].distance # NoDistance
                        /\ i \notin Pending(searches[s]) =>
                              /\ selectedRestaurants'[i].details
                                    = searches[s].enriched[i].details
                              /\ selectedRestaurants'[i].distance
                                    = searches[s].enriched[i].distance
            /\ searches[s].pc = "searching" => selectedRestaurants' = <<>>]_vars

\* one of two details fetches of an invocation has resolved, the other is
\* pending, and the selection shown is still the list of the earlier search
C10_Witness ==
    \E s \in Slots :
        /\ searches[s].pc = "details"
        /\ Len(searches[s].selected) = 2
        /\ Cardinality(Pending(searches[s])) = 1
        /\ Len(selectedRestaurants) = 1
        /\ selectedRestaurants[1].place_id # searches[s].selected[1].place_id
        /\ selectedRestaurants[1].place_id # searches[s].selected[2].place_id

\* the restaurant markers whose popover is open
OpenPopovers == {i \in 1..Len(markers) : markers[i].infoWindow = "open"}

\* C11: at most one restaurant-marker popover is open, in every reachable
\* state.
C11_AtMostOneOpen == Cardinality(OpenPopovers) <= 1

\* the places of the entries of a selection that get a marker, in order
MarkedIds(selection) ==
    MarkerIds(SelectSeq(selection, LAMBDA r : r.business_status = "OPERATIONAL"))

\* C12: markers holds one marker per OPERATIONAL entry of selectedRestaurants,
\* in the same order, and the restaurant markers on the map are exactly those
\* of markers: none created by an earlier run of updateMapMarkers is left.
C12_MarkersMatchSelection ==
    /\ MarkerIds(markers) = MarkedIds(selectedRestaurants)
    /\ onMap = MarkerIds(markers)

\* a run of updateMapMarkers cleared the two markers of an earlier selection
\* and put up the one marker of the new selection
C12_Witness ==
    /\ lastDone.found
    /\ lastDone.cleared = 2
    /\ selectedRestaurants = lastDone.result
    /\ Len(selectedRestaurants) = 1
    /\ Len(markers) = 1
    /\ onMap = <<selectedRestaurants[1].place_id>>

\* every entry of the list is operational and rated 3.5 or more, and no two
\* entries stand for the same place
Qualified(list) ==
    /\ \A i \in 1..Len(list) :
          /\ list[i].business_status = "OPERATIONAL"
          /\ list[i].rating # {}
          /\ \A r \in list[i].rating : r >= RatingFloor
    /\ \A i, j \in 1..Len(list) : list[i].place_id = list[j].place_id => i = j

\* the step in which the invocation in slot s takes its sample and sends the
\* details requests
TakesSample(s) == searches[s].pc = "searching" /\ searches'[s].pc = "details"

\* C13: every entry of selectedRestaurants is OPERATIONAL and rated 3.5 or
\* more, no two entries share a place_id, and a sample holds at most
\* numberOfRestaurants entries, as read in the step that takes it.
C13_QualifiedAndWithinCount ==
    /\ [](Qualified(selectedRestaurants))
    /\ [][\A s \in Slots :
            TakesSample(s) =>
                Len(searches'[s].selected) <= numberOfRestaurants]_vars

\* C14: the distance of every entry an invocation writes to
\* selectedRestaurants is measured from the currentPosition that invocation
\* sent as location in its nearbySearch request.
C14_SingleOrigin ==
    [][\A s \in Slots :
          (Returns(s) /\ searches[s].pc = "details") =>
              \A i \in 1..Len(selectedRestaurants') :
                  selectedRestaurants'[i].distance.from = searches[s].location]_vars

====
